---- MODULE Spec2Model ----
(***************************************************************************)
(* Study AI Pro (src/app.py): a Streamlit script over two Supabase tables, *)
(* questions and user_progress.  Every user interaction re-runs the script *)
(* from its first line; a button's handler runs inside that run and, where *)
(* it ends with st.rerun(), the script runs once more.  One action of this *)
(* module is one interaction: the handler and the script run(s) it causes. *)
(* Requests of one session are handled one at a time (spec section 5).     *)
(***************************************************************************)
EXTENDS Integers, Sequences, FiniteSets, TLC

VARIABLES
    supabase,        \* the Supabase client exists (app.py:20-38)
    gateway,         \* GEMINI_API_KEY is set, and the generation in progress
    peer,            \* the script run of another browser session on the same store
    questions,       \* table "questions", in storage order
    next_id,         \* the id the store gives the next inserted question
    progress,        \* table "user_progress", in insertion order
    user,            \* st.session_state.user
    mode,            \* the sidebar radio (app.py:221)
    selected_topic,  \* the topic selectbox (app.py:274)
    question_type,   \* the type selectbox (app.py:278)
    only_failed,     \* the toggle (app.py:294)
    has_q_index,     \* "q_index" in st.session_state (app.py:421)
    q_index,         \* st.session_state.q_index (0 while has_q_index is FALSE)
    url_q,           \* st.query_params["q"], a string, or NoParam
    db_questions,    \* the filtered list of the last Estudiar run
    deref,           \* <<i>>: the last run evaluated db_questions[i]; <<>>: it did not
    page,            \* what the last script run rendered
    metrics          \* <<m>>: the st.metric values the last run showed; <<>>: none

vars == <<supabase, gateway, peer, questions, next_id, progress, user, mode, selected_topic,
          question_type, only_failed, has_q_index, q_index, url_q,
          db_questions, deref, page, metrics>>

store == <<supabase, gateway, peer, questions, next_id, progress>>
filters == <<selected_topic, question_type, only_failed>>
cursor == <<has_q_index, q_index, url_q>>
view == <<db_questions, deref, page, metrics>>

(***************************************************************************)
(* Bounds of the model and the inputs the environment may give.            *)
(***************************************************************************)
MaxQuestions == 3
MaxProgress == 2

Users == {"ana", "bob"}
TopicInputs == {"Math", "Hist"}
NoUser == "<None>"
NoParam == <<"<absent>">>

Modes == {"Generar Material", "Estudiar", "Estadisticas", "Gestionar Contenido"}
TodosLosTemas == "Todos los temas"
NoType == "<None>"
QuestionTypes == <<"Todas", "Flashcards", "Quiz", "Desarrollo">>

type_map(label) ==
    CASE label = "Todas" -> NoType
      [] label = "Flashcards" -> "flashcard"
      [] label = "Quiz" -> "quiz"
      [] label = "Desarrollo" -> "essay"

\* What the extraction gateway returns for one question: type, answer, options.
GenFlashcard == [type |-> "flashcard", answer |-> "a", options |-> <<>>]
GenQuiz == [type |-> "quiz", answer |-> "Paris", options |-> <<"Paris", "paris">>]
GenEssay == [type |-> "essay", answer |-> "a", options |-> <<>>]
Generated == {GenFlashcard, GenQuiz, GenEssay}
Responses == {<<>>, <<GenFlashcard>>, <<GenQuiz, GenEssay>>}

EssayTexts == {" txt ", "  "}
\* The texts str.strip() leaves nothing of.
Blank == {"", "  "}

(***************************************************************************)
(* str(), str.isdigit() and int() on the q parameter (app.py:423-424,433). *)
(* A string is a sequence of characters.                                   *)
(***************************************************************************)
Digits == <<"0", "1", "2", "3", "4", "5", "6", "7", "8", "9">>

RECURSIVE StrNat(_)
StrNat(n) == IF n < 10 THEN <<Digits[n + 1]>>
             ELSE StrNat(n \div 10) \o <<Digits[(n % 10) + 1]>>

Str(n) == IF n < 0 THEN <<"-">> \o StrNat(0 - n) ELSE StrNat(n)

\* Characters str.isdigit() accepts that are no decimal digits (superscript
\* two stands for them): int() raises ValueError on them.
OtherDigits == {"sup2"}

IsDecimal(c) == \E d \in 1..10 : Digits[d] = c

IsDigit(s) ==
    Len(s) > 0 /\ \A k \in 1..Len(s) : IsDecimal(s[k]) \/ s[k] \in OtherDigits

IntRaises(s) == \E k \in 1..Len(s) : ~IsDecimal(s[k])

DigitValue(c) == (CHOOSE d \in 1..10 : Digits[d] = c) - 1

RECURSIVE IntOf(_)
IntOf(s) == IF Len(s) = 0 THEN 0
            ELSE 10 * IntOf(SubSeq(s, 1, Len(s) - 1)) + DigitValue(s[Len(s)])

UrlGet(url) == IF url = NoParam THEN <<"0">> ELSE url

UrlIndex(url) == IF IsDigit(UrlGet(url)) THEN IntOf(UrlGet(url)) ELSE 0

(***************************************************************************)
(* The review selector (app.py:386-406).  A question is a record           *)
(* [id, topic, type, answer, options]; a progress row is a record          *)
(* [username, question_id, is_correct, user_answer].                       *)
(***************************************************************************)
topics_of(all_questions) == {all_questions[k].topic : k \in 1..Len(all_questions)}

TopicFilter(all_questions, topic) ==
    IF topic = TodosLosTemas THEN all_questions
    ELSE SelectSeq(all_questions, LAMBDA q : q.topic = topic)

TypeFilter(qs, selected_type) ==
    IF selected_type # NoType
    THEN SelectSeq(qs, LAMBDA q : q.type = selected_type)
    ELSE qs

\* Variant: the rows of every user.
progress_res_all_users(pr, u) == pr

progress_res(pr, u) == SelectSeq(pr, LAMBDA p : p.username = u)

failed_ids(rows) ==
    {rows[k].question_id : k \in {j \in 1..Len(rows) : ~rows[j].is_correct}}

success_ids(rows) ==
    {rows[k].question_id : k \in {j \in 1..Len(rows) : rows[j].is_correct}}

\* Variants: no subtraction of the succeeded ids; no fallback; the last
\* entry of a question decides.
review_ids_all_failed(rows) == failed_ids(rows)

review_ids_no_fallback(rows) == failed_ids(rows) \ success_ids(rows)

review_ids_last_entry(rows) ==
    {rows[k].question_id :
        k \in {j \in 1..Len(rows) :
                  /\ ~rows[j].is_correct
                  /\ \A i \in (j + 1)..Len(rows) :
                        rows[i].question_id # rows[j].question_id}}

review_ids(rows) ==
    LET r == failed_ids(rows) \ success_ids(rows)
    IN  IF r = {} THEN failed_ids(rows) ELSE r

\* Variant: the failed questions in the order of their progress rows.
RECURSIVE InLogOrder(_, _, _)
InLogOrder(rows, ids, qs) ==
    IF rows = <<>> THEN <<>>
    ELSE SelectSeq(qs, LAMBDA x : x.id = Head(rows).question_id /\ x.id \in ids)
            \o InLogOrder(Tail(rows), ids, qs)

FailedFilter_log_order(qs, failed, pr, u) ==
    IF failed
    THEN InLogOrder(progress_res(pr, u), review_ids(progress_res(pr, u)), qs)
    ELSE qs

FailedFilter(qs, failed, pr, u) ==
    IF failed
    THEN SelectSeq(qs, LAMBDA q : q.id \in review_ids(progress_res(pr, u)))
    ELSE qs

Select(all_questions, topic, label, failed, pr, u) ==
    FailedFilter(TypeFilter(TopicFilter(all_questions, topic), type_map(label)),
                 failed, pr, u)

(***************************************************************************)
(* The session cursor (app.py:417-435).                                    *)
(***************************************************************************)
\* Variant: the upper test off by one.
Clamp_off_by_one(i, n) ==
    LET a == IF i > n THEN 0 ELSE i
    IN  IF a < 0 THEN 0 ELSE a

Clamp(i, n) ==
    LET a == IF i >= n THEN 0 ELSE i
    IN  IF a < 0 THEN 0 ELSE a

\* Python's list indexing: db[i] is defined for -len <= i < len.
Indexable(db, i) == 0 - Len(db) <= i /\ i < Len(db)
Item(db, i) == IF i < 0 THEN db[Len(db) + i + 1] ELSE db[i + 1]

\* One run of the Estudiar branch (app.py:250-435) up to the point where the
\* current question is read; qs and pr are the tables as the run reads them.
StudyRun(db_ok, qs, pr, u, topic, label, failed, has, qi, url) ==
    LET keep == [has |-> has, q_index |-> qi, url_q |-> url,
                 db_questions |-> <<>>, deref |-> <<>>, page |-> "no_db",
                 metrics |-> <<>>]
        db == Select(qs, topic, label, failed, pr, u)
        i0 == IF has THEN qi ELSE UrlIndex(url)
        i1 == Clamp(i0, Len(db))
    IN  IF ~db_ok THEN keep
        ELSE IF qs = <<>> THEN [keep EXCEPT !.page = "no_questions"]
        ELSE IF db = <<>>
             THEN [keep EXCEPT !.page = IF failed THEN "no_failed" ELSE "no_match"]
        ELSE IF ~has /\ IsDigit(UrlGet(url)) /\ IntRaises(UrlGet(url))
             THEN [keep EXCEPT !.db_questions = db, !.page = "value_error"]
        ELSE [has |-> TRUE, q_index |-> i1, url_q |-> Str(i1),
              db_questions |-> db, deref |-> <<i1>>,
              page |-> IF Indexable(db, i1) THEN "question" ELSE "index_error",
              metrics |-> <<>>]

(***************************************************************************)
(* The metrics of Estadisticas (app.py:618-627).                           *)
(***************************************************************************)
total(user_data) == Len(user_data)

correct_all_rows(user_data) == Len(user_data)

\* sum(1 for x in user_data if x.get('is_correct'))
correct(user_data) ==
    Cardinality({k \in 1..Len(user_data) : user_data[k].is_correct})

\* (correct / total) * 100 if total > 0 else 0, as the fraction num/den.  The
\* double the code computes differs from it by less than 10^-12.
accuracy(c, t) ==
    IF t > 0 THEN [num |-> c * 100, den |-> t] ELSE [num |-> 0, den |-> 1]

\* f"{accuracy:.1f}": the nearest tenth, the even one of two equally near,
\* as a number of tenths ("70.0" is 700).
FormatTenths(x) ==
    LET n == x.num * 10
        lo == n \div x.den
        r == n % x.den
    IN  IF 2 * r < x.den THEN lo
        ELSE IF 2 * r > x.den THEN lo + 1
        ELSE IF lo % 2 = 0 THEN lo ELSE lo + 1

Metrics(user_data) ==
    [total |-> total(user_data), correct |-> correct(user_data),
     precision |-> FormatTenths(accuracy(correct(user_data), total(user_data)))]

\* A run of another branch of the script leaves the cursor alone.
OtherRun(db_ok, qs, pr, u, m, has, qi, url) ==
    LET user_data == progress_res(pr, u)
        stats == u # NoUser /\ m = "Estadisticas" /\ db_ok
    IN
    [has |-> has, q_index |-> qi, url_q |-> url, db_questions |-> <<>>,
     deref |-> <<>>,
     page |-> IF u = NoUser THEN "login"
              ELSE IF m = "Generar Material" THEN "generate"
              ELSE IF ~db_ok THEN "no_db"
              ELSE IF m = "Estadisticas"
                   THEN IF user_data = <<>> THEN "no_stats" ELSE "stats"
              ELSE IF qs = <<>> THEN "no_content" ELSE "manage",
     metrics |-> IF stats /\ user_data # <<>> THEN <<Metrics(user_data)>> ELSE <<>>]

Render(r) ==
    /\ has_q_index' = r.has
    /\ q_index' = r.q_index
    /\ url_q' = r.url_q
    /\ db_questions' = r.db_questions
    /\ deref' = r.deref
    /\ page' = r.page
    /\ metrics' = r.metrics

\* The widgets of the Estudiar branch are drawn once all_questions is non-empty
\* (app.py:261-294); the question and its buttons after line 435.
WidgetsShown ==
    mode = "Estudiar" /\ page \in {"question", "no_match", "no_failed", "value_error"}
QuestionShown == mode = "Estudiar" /\ page = "question"
q == Item(db_questions, deref[1])

(***************************************************************************)
(* The stores' operations (app.py:168-189, 654, 703-707, 716-717).         *)
(***************************************************************************)
save_to_db(qs, first_id, generated, topic) ==
    qs \o [k \in 1..Len(generated) |->
              [id |-> first_id + k - 1, topic |-> topic,
               type |-> generated[k].type, answer |-> generated[k].answer,
               options |-> generated[k].options]]

\* Variant: one row per user and question, updated in place.
save_progress_upsert(pr, u, q_id, is_correct, user_ans) ==
    LET row == [username |-> u, question_id |-> q_id,
                is_correct |-> is_correct, user_answer |-> user_ans]
        old == {k \in 1..Len(pr) : pr[k].username = u /\ pr[k].question_id = q_id}
    IN  IF old = {} THEN Append(pr, row)
        ELSE [k \in 1..Len(pr) |-> IF k \in old THEN row ELSE pr[k]]

save_progress(pr, u, q_id, is_correct, user_ans) ==
    Append(pr, [username |-> u, question_id |-> q_id,
                is_correct |-> is_correct, user_answer |-> user_ans])

\* What the grading call gives: a JSON object whose "correct" is true or
\* false, an exception, text json.loads fails on, or JSON with no "correct".
GradeOutcomes == {"true", "false", "raise", "malformed", "no_correct"}

grade_essay_error_passes(key, outcome) ==
    IF outcome = "no_correct" THEN [correct |-> <<>>, feedback |-> "model"]
    ELSE [correct |-> <<outcome # "false">>, feedback |-> "model"]

\* grade_essay (app.py:191-205): the verdict; correct is <<>> when the
\* parsed response has no such field.
grade_essay(key, outcome) ==
    IF ~key THEN [correct |-> <<FALSE>>, feedback |-> "No API Key"]
    ELSE IF outcome \in {"raise", "malformed"}
    THEN [correct |-> <<FALSE>>, feedback |-> "Error calificando."]
    ELSE IF outcome = "no_correct"
    THEN [correct |-> <<>>, feedback |-> "model"]
    ELSE [correct |-> <<outcome = "true">>, feedback |-> "model"]

(***************************************************************************)
(* The generation in progress (app.py:125-166, 341-371).  gateway.calls    *)
(* lists the generate_content calls made, oldest first; errors counts the  *)
(* st.error boxes of the generation; before is the questions table when    *)
(* the generation began.                                                   *)
(***************************************************************************)
IdleGateway(key) ==
    [key |-> key, pc |-> "idle", dialog |-> FALSE, topic |-> "", model |-> 0,
     attempt |-> 0, calls |-> <<>>, result |-> <<>>, errors |-> 0,
     before |-> <<>>]

\* The other session: pc is where its script run stands, all_questions what
\* the run read from the questions table (app.py:258, 667), topic the topic
\* its delete handler is removing.
IdlePeer == [pc |-> "idle", all_questions |-> <<>>, topic |-> ""]

StudyNow(qs, pr, topic, label, failed, has, qi, url) ==
    StudyRun(supabase, qs, pr, user, topic, label, failed, has, qi, url)

\* The script run a click starts: the Estudiar branch over the tables as they
\* are now, before the clicked button's handler is reached.
ClickRun ==
    StudyNow(questions, progress, selected_topic, question_type, only_failed,
             has_q_index, q_index, url_q)

\* The run st.rerun() starts once a handler has set q_index to i.
RerunAt(pr, i, url) ==
    StudyNow(questions, pr, selected_topic, question_type, only_failed,
             TRUE, i, url)

(***************************************************************************)
(* Init: a browser session opened on the app's URL, over empty tables.     *)
(***************************************************************************)
UrlInputs == {NoParam, <<"a">>, <<"-", "1">>, <<"1">>, <<"7">>, <<"sup2">>}

Init ==
    /\ supabase \in BOOLEAN
    /\ gateway = IdleGateway(TRUE)
    /\ peer = IdlePeer
    /\ questions = <<>>
    /\ next_id = 1
    /\ progress = <<>>
    /\ user = NoUser
    /\ mode = "Generar Material"
    /\ selected_topic = TodosLosTemas
    /\ question_type = "Todas"
    /\ only_failed = FALSE
    /\ has_q_index = FALSE
    /\ q_index = 0
    /\ url_q \in UrlInputs
    /\ db_questions = <<>>
    /\ deref = <<>>
    /\ page = "login"
    /\ metrics = <<>>

ResetFilters ==
    /\ selected_topic' = TodosLosTemas
    /\ question_type' = "Todas"
    /\ only_failed' = FALSE

\* app.py:209-218
Login(u) ==
    /\ user = NoUser
    /\ user' = u
    /\ Render(OtherRun(supabase, questions, progress, u, mode,
                       has_q_index, q_index, url_q))
    /\ UNCHANGED <<store, mode, filters>>

\* The sidebar radio (app.py:221).  The widgets of the branch left are no
\* longer drawn, so they are back at their defaults when it is entered again.
SetMode(m) ==
    /\ user # NoUser
    /\ m # mode
    /\ mode' = m
    /\ ResetFilters
    /\ Render(IF m = "Estudiar"
              THEN StudyNow(questions, progress, TodosLosTemas, "Todas", FALSE,
                            has_q_index, q_index, url_q)
              ELSE OtherRun(supabase, questions, progress, user, m,
                            has_q_index, q_index, url_q))
    /\ UNCHANGED <<store, user>>

\* The script runs again with nothing clicked (Streamlit's Rerun).
Rerun ==
    /\ user # NoUser
    /\ Render(IF mode = "Estudiar" THEN ClickRun
              ELSE OtherRun(supabase, questions, progress, user, mode,
                            has_q_index, q_index, url_q))
    /\ UNCHANGED <<store, user, mode, filters>>

\* A change of one of the three filter widgets (app.py:274-294) and the run
\* it causes.
ChangeFilters(topic, label, failed) ==
    /\ WidgetsShown
    /\ selected_topic' = topic
    /\ question_type' = label
    /\ only_failed' = failed
    /\ Render(StudyNow(questions, progress, topic, label, failed,
                       has_q_index, q_index, url_q))
    /\ UNCHANGED <<store, user, mode>>

SelectTopic(topic) ==
    /\ topic \in {TodosLosTemas} \cup topics_of(questions)
    /\ topic # selected_topic
    /\ ChangeFilters(topic, question_type, only_failed)

SelectType(label) ==
    /\ label # question_type
    /\ ChangeFilters(selected_topic, label, only_failed)

ToggleOnlyFailed == ChangeFilters(selected_topic, question_type, ~only_failed)

(***************************************************************************)
(* Navigation (app.py:575-600).  A button drawn disabled cannot be         *)
(* clicked; a click on a button drawn enabled starts a run, and the        *)
(* handler acts on that run's list and cursor.                             *)
(***************************************************************************)
prev_index(i) == i - 1
next_index(i) == i + 1
\* Variant: the 1-based number taken as the index.
go_to_index_one_based(n) == n

go_to_index(n) == n - 1
prev_disabled(i) == i = 0
next_disabled(i, n) == i >= n - 1

\* handler(r1) is the q_index the handler sets in the run r1 of the click;
\* it then writes the q parameter and calls st.rerun().
Navigate(r1, i) ==
    /\ IF r1.page = "question"
       THEN Render(RerunAt(progress, i, Str(i)))
       ELSE Render(r1)
    /\ UNCHANGED <<store, user, mode, filters>>

\* A button the run of the click draws disabled was drawn enabled before:
\* whether the click is still the button's depends on the Streamlit release
\* (the identity of a keyless button covers "disabled" in some releases), so
\* the handler runs or the click is dropped.
Prev ==
    /\ QuestionShown
    /\ ~prev_disabled(q_index)
    /\ \E registers \in BOOLEAN :
          IF registers \/ ~prev_disabled(ClickRun.q_index)
          THEN Navigate(ClickRun, prev_index(ClickRun.q_index))
          ELSE Render(ClickRun) /\ UNCHANGED <<store, user, mode, filters>>

NextQ ==
    /\ QuestionShown
    /\ ~next_disabled(q_index, Len(db_questions))
    /\ \E registers \in BOOLEAN :
          IF registers
             \/ ~next_disabled(ClickRun.q_index, Len(ClickRun.db_questions))
          THEN Navigate(ClickRun, next_index(ClickRun.q_index))
          ELSE Render(ClickRun) /\ UNCHANGED <<store, user, mode, filters>>

\* The number input is the one drawn (min 1, max len, value q_index + 1) only
\* while the run of the click draws it with the same arguments; a new one
\* holds its default, q_index + 1.
GoTo(n) ==
    /\ QuestionShown
    /\ n \in 1..Len(db_questions)
    /\ LET r1 == ClickRun
           go_to == IF Len(r1.db_questions) = Len(db_questions)
                       /\ r1.q_index = q_index
                    THEN n ELSE r1.q_index + 1
       IN  Navigate(r1, go_to_index(go_to))

(***************************************************************************)
(* Answers (app.py:528-573).                                               *)
(***************************************************************************)
advance(i, n) == IF i < n - 1 THEN i + 1 ELSE i

\* The buttons are keyed by the question's id (know_<id>, notknow_<id>).
Flashcard(known) ==
    /\ QuestionShown
    /\ q.type = "flashcard"
    /\ LET r1 == ClickRun
           i == advance(r1.q_index, Len(r1.db_questions))
       IN  IF r1.page = "question" /\ Item(r1.db_questions, r1.q_index).id = q.id
           THEN /\ progress' = save_progress(progress, user, q.id, known,
                        IF known THEN "Correcto mental" ELSE "Incorrecto mental")
                /\ Render(RerunAt(progress', i,
                                  IF i = r1.q_index THEN r1.url_q ELSE Str(i)))
           ELSE /\ progress' = progress
                /\ Render(r1)
    /\ UNCHANGED <<supabase, peer, gateway, questions, next_id, user, mode, filters>>

\* Variant: the comparison ignores the case of the letters.
Lower(str) == IF str = "Paris" THEN "paris" ELSE str
quiz_is_correct_casefold(selected_ans, answer) == Lower(selected_ans) = Lower(answer)

\* is_correct = (selected_ans == q['answer'])
quiz_is_correct(selected_ans, answer) == selected_ans = answer

\* "Comprobar respuesta" has no key; the radio is keyed quiz_<id> and holds
\* its first option when the run draws it for another question.  No
\* st.rerun() follows: the page stays the one this run drew.
Quiz(k) ==
    /\ QuestionShown
    /\ q.type = "quiz"
    /\ k \in 1..Len(q.options)
    /\ LET r1 == ClickRun
           q1 == Item(r1.db_questions, r1.q_index)
           selected_ans == IF q1.id = q.id THEN q.options[k] ELSE q1.options[1]
       IN  /\ IF r1.page = "question" /\ q1.type = "quiz" /\ q1.options # <<>>
              THEN progress' = save_progress(progress, user, q1.id,
                                             quiz_is_correct(selected_ans, q1.answer),
                                             selected_ans)
              ELSE progress' = progress
           /\ Render(r1)
    /\ UNCHANGED <<supabase, peer, gateway, questions, next_id, user, mode, filters>>

\* The text area is keyed essay_<id>: drawn for another question it is empty,
\* and an answer str.strip() leaves nothing of is not graded.  result['correct']
\* raises KeyError before save_progress when the verdict has no such field.
Essay(user_answer, outcome) ==
    /\ QuestionShown
    /\ q.type = "essay"
    /\ LET r1 == ClickRun
           q1 == Item(r1.db_questions, r1.q_index)
           result == grade_essay(gateway.key, outcome)
       IN  /\ IF /\ r1.page = "question" /\ q1.type = "essay" /\ q1.id = q.id
                 /\ user_answer \notin Blank
                 /\ result.correct # <<>>
              THEN progress' = save_progress(progress, user, q1.id,
                                             result.correct[1], user_answer)
              ELSE progress' = progress
           /\ Render(r1)
    /\ UNCHANGED <<supabase, peer, gateway, questions, next_id, user, mode, filters>>

(***************************************************************************)
(* Generation (app.py:228-248, 301-382): generated is what the model       *)
(* ladder returned.                                                        *)
(***************************************************************************)
Generate(topic, generated) ==
    /\ user # NoUser
    /\ mode = "Generar Material"
    /\ next_id + Len(generated) - 1 <= MaxQuestions
    /\ IF generated # <<>> /\ supabase
       THEN /\ questions' = save_to_db(questions, next_id, generated, topic)
            /\ next_id' = next_id + Len(generated)
       ELSE UNCHANGED <<questions, next_id>>
    /\ UNCHANGED <<supabase, peer, gateway, progress, user, mode, filters, cursor, view>>

GenerateDialog(generated) ==
    /\ WidgetsShown
    /\ selected_topic # TodosLosTemas
    /\ next_id + Len(generated) - 1 <= MaxQuestions
    /\ IF generated # <<>>
       THEN /\ questions' = save_to_db(questions, next_id, generated, selected_topic)
            /\ next_id' = next_id + Len(generated)
            /\ Render(StudyNow(questions', progress, selected_topic, question_type,
                               only_failed, has_q_index, q_index, url_q))
       ELSE /\ UNCHANGED <<questions, next_id>>
            /\ Render(ClickRun)
    /\ UNCHANGED <<supabase, peer, gateway, progress, user, mode, filters>>

(***************************************************************************)
(* Deletions (app.py:652-657, 701-718).                                    *)
(***************************************************************************)
\* Variants: only the rows of one of the ids; the rows of every user.
delete_one_question_id(pr, q_ids) ==
    SelectSeq(pr, LAMBDA p :
        ~(q_ids # {} /\ p.question_id = CHOOSE x \in q_ids : \A y \in q_ids : x <= y))

delete_any_username(pr, u) == <<>>

\* The delete requests: .eq, .in_ and .neq filters pick the rows deleted.
delete_eq_username(pr, u) == SelectSeq(pr, LAMBDA p : ~(p.username = u))
delete_in_question_id(pr, q_ids) == SelectSeq(pr, LAMBDA p : ~(p.question_id \in q_ids))
delete_eq_topic(qs, t) == SelectSeq(qs, LAMBDA x : ~(x.topic = t))
delete_neq_username(pr, u) == SelectSeq(pr, LAMBDA p : ~(p.username # u))
delete_neq_topic(qs, t) == SelectSeq(qs, LAMBDA x : ~(x.topic # t))

ClearHistory ==
    /\ mode = "Estadisticas"
    /\ page = "stats"
    /\ progress' = delete_eq_username(progress, user)
    /\ Render(OtherRun(supabase, questions, progress', user, mode,
                       has_q_index, q_index, url_q))
    /\ UNCHANGED <<supabase, peer, gateway, questions, next_id, user, mode, filters>>

DeleteTopic(t) ==
    /\ mode = "Gestionar Contenido"
    /\ page = "manage"
    /\ t \in topics_of(questions)
    /\ LET q_ids == {questions[k].id : k \in {j \in 1..Len(questions) :
                                                questions[j].topic = t}}
       IN  progress' = delete_in_question_id(progress, q_ids)
    /\ questions' = delete_eq_topic(questions, t)
    /\ Render(OtherRun(supabase, questions', progress', user, mode,
                       has_q_index, q_index, url_q))
    /\ UNCHANGED <<supabase, peer, gateway, next_id, user, mode, filters>>

\* No st.rerun() follows: the page shown is the one drawn before the wipe.
WipeAll ==
    /\ mode = "Gestionar Contenido"
    /\ page = "manage"
    /\ progress' = delete_neq_username(progress, "---")
    /\ questions' = delete_neq_topic(questions, "---")
    /\ UNCHANGED <<supabase, peer, gateway, next_id, user, mode, filters, cursor, view>>

Next ==
    \/ \E u \in Users : Login(u)
    \/ \E m \in Modes : SetMode(m)
    \/ Rerun
    \/ \E t \in {TodosLosTemas} \cup TopicInputs : SelectTopic(t)
    \/ \E k \in 1..Len(QuestionTypes) : SelectType(QuestionTypes[k])
    \/ ToggleOnlyFailed
    \/ Prev
    \/ NextQ
    \/ \E n \in 1..MaxQuestions : GoTo(n)
    \/ Len(progress) < MaxProgress /\ \E known \in BOOLEAN : Flashcard(known)
    \/ Len(progress) < MaxProgress /\ \E k \in 1..Len(GenQuiz.options) : Quiz(k)
    \/ /\ Len(progress) < MaxProgress
       /\ \E text \in EssayTexts, outcome \in GradeOutcomes : Essay(text, outcome)
    \/ \E t \in TopicInputs, g \in Responses : Generate(t, g)
    \/ \E g \in Responses : GenerateDialog(g)
    \/ ClearHistory
    \/ \E t \in TopicInputs : DeleteTopic(t)
    \/ WipeAll

Spec == Init /\ [][Next]_vars

(***************************************************************************)
(* Sessions over tables that already hold content.  The tables are built   *)
(* with save_to_db and save_progress, so they are tables the application   *)
(* writes; the session has logged in and chosen Estudiar.                  *)
(***************************************************************************)
SelMaxQuestions == 2
SelMaxProgress == 3
ReviewMaxProgress == 4

\* The view is the one the run r drew.
Shows(r) ==
    /\ has_q_index = r.has
    /\ q_index = r.q_index
    /\ url_q = r.url_q
    /\ db_questions = r.db_questions
    /\ deref = r.deref
    /\ page = r.page
    /\ metrics = r.metrics

RECURSIVE StoresOver(_, _)
StoresOver(topics, n) ==
    IF n = 0 THEN {<<>>}
    ELSE LET S == StoresOver(topics, n - 1)
         IN  S \cup {save_to_db(s, Len(s) + 1, <<g>>, t) :
                        s \in {x \in S : Len(x) = n - 1},
                        g \in Generated, t \in topics}

RECURSIVE LogsOver(_, _, _)
LogsOver(users, qs, n) ==
    IF n = 0 THEN {<<>>}
    ELSE LET L == LogsOver(users, qs, n - 1)
         IN  L \cup {save_progress(pr, u, qs[k].id, c, "x") :
                        pr \in {x \in L : Len(x) = n - 1},
                        u \in users, k \in 1..Len(qs), c \in BOOLEAN}

Stores(n) == StoresOver(TopicInputs, n)
Logs(qs, n) == LogsOver(Users, qs, n)

StudyOpened ==
    /\ supabase = TRUE
    /\ next_id = Len(questions) + 1
    /\ user = "ana"
    /\ mode = "Estudiar"
    /\ selected_topic = TodosLosTemas
    /\ question_type = "Todas"
    /\ only_failed = FALSE
    /\ Shows(StudyRun(TRUE, questions, progress, "ana", TodosLosTemas, "Todas",
                      FALSE, FALSE, 0, NoParam))

\* The selector over every small store and progress log of two users.
InitSelect ==
    /\ questions \in Stores(SelMaxQuestions)
    /\ progress \in Logs(questions, SelMaxProgress)
    /\ gateway = IdleGateway(TRUE)
    /\ peer = IdlePeer
    /\ StudyOpened

NextSelect ==
    \/ \E t \in {TodosLosTemas} \cup TopicInputs : SelectTopic(t)
    \/ \E k \in 1..Len(QuestionTypes) : SelectType(QuestionTypes[k])
    \/ ToggleOnlyFailed

SpecSelect == InitSelect /\ [][NextSelect]_vars

\* A study session over three stored questions of one topic.
ReviewStores ==
    {save_to_db(<<>>, 1, <<GenQuiz, GenQuiz, GenQuiz>>, "Math"),
     save_to_db(<<>>, 1, <<GenFlashcard, GenFlashcard, GenEssay>>, "Math")}

InitReview ==
    /\ questions \in ReviewStores
    /\ progress = <<>>
    /\ \E key \in BOOLEAN : gateway = IdleGateway(key)
    /\ peer = IdlePeer
    /\ StudyOpened

NextReview ==
    \/ Rerun
    \/ ToggleOnlyFailed
    \/ Prev
    \/ NextQ
    \/ \E n \in 1..MaxQuestions : GoTo(n)
    \/ Len(progress) < ReviewMaxProgress /\ \E known \in BOOLEAN : Flashcard(known)
    \/ Len(progress) < ReviewMaxProgress /\ \E k \in 1..Len(GenQuiz.options) : Quiz(k)
    \/ /\ Len(progress) < ReviewMaxProgress
       /\ \E text \in EssayTexts, outcome \in GradeOutcomes : Essay(text, outcome)

SpecReview == InitReview /\ [][NextReview]_vars

(***************************************************************************)
(* A session on Gestionar Contenido over stored content of two users,      *)
(* where "---" is one of the topics and one of the usernames: both are     *)
(* texts the login form (app.py:214) and the topic input (app.py:226)      *)
(* accept.                                                                 *)
(***************************************************************************)
ManageMaxQuestions == 2
ManageMaxProgress == 2
ManageTopics == {"Math", "---"}
ManageUsers == {"ana", "---"}

InitManage ==
    /\ supabase = TRUE
    /\ gateway = IdleGateway(TRUE)
    /\ peer = IdlePeer
    /\ questions \in StoresOver(ManageTopics, ManageMaxQuestions)
    /\ progress \in LogsOver(ManageUsers, questions, ManageMaxProgress)
    /\ next_id = Len(questions) + 1
    /\ user = "ana"
    /\ mode = "Gestionar Contenido"
    /\ selected_topic = TodosLosTemas
    /\ question_type = "Todas"
    /\ only_failed = FALSE
    /\ Shows(OtherRun(TRUE, questions, progress, "ana", "Gestionar Contenido",
                      FALSE, 0, NoParam))

NextManage ==
    \/ \E m \in Modes : SetMode(m)
    \/ Rerun
    \/ \E t \in {TodosLosTemas} \cup ManageTopics : SelectTopic(t)
    \/ \E k \in 1..Len(QuestionTypes) : SelectType(QuestionTypes[k])
    \/ ToggleOnlyFailed
    \/ Prev
    \/ NextQ
    \/ \E n \in 1..ManageMaxQuestions : GoTo(n)
    \/ Len(progress) < ManageMaxProgress /\ \E known \in BOOLEAN : Flashcard(known)
    \/ Len(progress) < ManageMaxProgress /\ \E k \in 1..Len(GenQuiz.options) : Quiz(k)
    \/ /\ Len(progress) < ManageMaxProgress
       /\ \E text \in EssayTexts, outcome \in GradeOutcomes : Essay(text, outcome)
    \/ ClearHistory
    \/ \E t \in ManageTopics : DeleteTopic(t)
    \/ WipeAll

SpecManage == InitManage /\ [][NextManage]_vars

(***************************************************************************)
(* The model ladder, one generate_content call at a time                   *)
(* (app.py:129-166 for Generar Material, 345-371 for the dialog).          *)
(***************************************************************************)
LadderMaxQuestions == 3

models_to_try ==
    <<"gemini-2.5-flash-lite", "gemini-2.0-flash-lite", "gemini-2.0-flash">>
dialog_models_to_try ==
    <<"gemini-2.0-flash-lite", "gemini-2.5-flash", "gemini-flash-latest">>
ladder_models(dialog) == IF dialog THEN dialog_models_to_try ELSE models_to_try

\* What one call gives: the exception generate_content raises, as the words
\* of its text (<<>>: none), or response.text, which is JSON with a value or
\* text json.loads fails on at character pos.
Answered(value) == [error |-> <<>>, wellformed |-> TRUE, value |-> value, pos |-> "0"]
Malformed(pos) == [error |-> <<>>, wellformed |-> FALSE, value |-> <<>>, pos |-> pos]
Raised(msg) == [error |-> msg, wellformed |-> FALSE, value |-> <<>>, pos |-> "0"]

GatewayOutcomes ==
    {Answered(<<GenFlashcard>>), Answered(<<>>), Malformed("0"), Malformed("429"),
     Raised(<<"429", "Too Many Requests">>), Raised(<<"RESOURCE_EXHAUSTED">>),
     Raised(<<"404", "NOT_FOUND">>)}

Attempt_empty_fails(o) ==
    IF o.error = <<>> /\ o.wellformed /\ o.value # <<>>
    THEN [ok |-> TRUE, value |-> o.value, error_msg |-> <<>>]
    ELSE [ok |-> FALSE, value |-> <<>>, error_msg |-> o.error]

\* The try block: the call and json.loads(response.text).
Attempt(o) ==
    IF o.error # <<>>
    THEN [ok |-> FALSE, value |-> <<>>, error_msg |-> o.error]
    ELSE IF o.wellformed
    THEN [ok |-> TRUE, value |-> o.value, error_msg |-> <<>>]
    ELSE [ok |-> FALSE, value |-> <<>>,
          error_msg |-> <<"Expecting value", "char", o.pos>>]

IsQuota_only_429(error_msg) ==
    \E k \in 1..Len(error_msg) : error_msg[k] = "429"

\* "429" in error_msg or "RESOURCE_EXHAUSTED" in error_msg
IsQuota(error_msg) ==
    \E k \in 1..Len(error_msg) : error_msg[k] \in {"429", "RESOURCE_EXHAUSTED"}

\* "Analizar y Generar" with files and a topic (app.py:228-240, 77-101).
StartGenerate(topic, upload_ok) ==
    /\ user # NoUser
    /\ mode = "Generar Material"
    /\ gateway.pc # "calling"
    /\ gateway' =
          IF gateway.key /\ upload_ok
          THEN [gateway EXCEPT !.pc = "calling", !.dialog = FALSE, !.topic = topic,
                               !.model = 1, !.attempt = 1, !.calls = <<>>,
                               !.result = <<>>, !.errors = 0, !.before = questions]
          ELSE [gateway EXCEPT !.pc = "done", !.dialog = FALSE, !.topic = topic,
                               !.model = 0, !.attempt = 0, !.calls = <<>>,
                               !.result = <<>>, !.errors = 2, !.before = questions]
    /\ UNCHANGED <<supabase, peer, questions, next_id, progress, user, mode, filters,
                   cursor, view>>

\* "Generar" in the dialog (app.py:314-343).
StartDialog ==
    /\ WidgetsShown
    /\ selected_topic # TodosLosTemas
    /\ gateway.pc # "calling"
    /\ gateway' =
          IF gateway.key
          THEN [gateway EXCEPT !.pc = "calling", !.dialog = TRUE,
                               !.topic = selected_topic, !.model = 1,
                               !.attempt = 1, !.calls = <<>>, !.result = <<>>,
                               !.errors = 0, !.before = questions]
          ELSE [gateway EXCEPT !.pc = "done", !.dialog = TRUE,
                               !.topic = selected_topic, !.model = 0,
                               !.attempt = 0, !.calls = <<>>, !.result = <<>>,
                               !.errors = 0, !.before = questions]
    /\ Render(ClickRun)
    /\ UNCHANGED <<supabase, peer, questions, next_id, progress, user, mode, filters>>

\* The generation ends with result (app.py:165-166, 242-248, 373-379).
Finish(calls, result, ladder_errors) ==
    /\ gateway' = [gateway EXCEPT !.pc = "done", !.model = 0, !.attempt = 0,
                                  !.calls = calls, !.result = result,
                                  !.errors = ladder_errors
                                             + IF result = <<>> THEN 1 ELSE 0]
    /\ IF result # <<>> /\ supabase
       THEN /\ questions' = save_to_db(questions, next_id, result, gateway.topic)
            /\ next_id' = next_id + Len(result)
       ELSE UNCHANGED <<questions, next_id>>
    /\ IF gateway.dialog /\ result # <<>>
       THEN Render(StudyNow(questions', progress, selected_topic, question_type,
                            only_failed, has_q_index, q_index, url_q))
       ELSE UNCHANGED <<cursor, view>>
    /\ UNCHANGED <<supabase, peer, progress, user, mode, filters>>

\* One generate_content call of the ladder and what the ladder does with it.
LadderCall(o) ==
    /\ gateway.pc = "calling"
    /\ next_id + Len(o.value) - 1 <= LadderMaxQuestions
    /\ LET a == Attempt(o)
           models == ladder_models(gateway.dialog)
           calls == Append(gateway.calls,
                           [model |-> models[gateway.model],
                            attempt |-> gateway.attempt, outcome |-> o])
           retry == ~a.ok /\ gateway.attempt = 1 /\ IsQuota(a.error_msg)
           exhausted == ~a.ok /\ ~retry /\ gateway.model = Len(models)
       IN  IF a.ok THEN Finish(calls, a.value, 0)
           ELSE IF exhausted
           THEN Finish(calls, <<>>, IF gateway.dialog THEN 0 ELSE 1)
           ELSE /\ gateway' = [gateway EXCEPT
                                  !.calls = calls,
                                  !.attempt = IF retry THEN 2 ELSE 1,
                                  !.model = IF retry THEN @ ELSE @ + 1]
                /\ UNCHANGED <<supabase, peer, questions, next_id, progress, user, mode,
                               filters, cursor, view>>

LadderTopics == {"Math"}

InitLadder ==
    /\ supabase \in BOOLEAN
    /\ \E key \in BOOLEAN : gateway = IdleGateway(key)
    /\ peer = IdlePeer
    /\ questions = save_to_db(<<>>, 1, <<GenQuiz>>, "Math")
    /\ progress = <<>>
    /\ next_id = 2
    /\ user = "ana"
    /\ mode = "Generar Material"
    /\ selected_topic = TodosLosTemas
    /\ question_type = "Todas"
    /\ only_failed = FALSE
    /\ Shows(OtherRun(supabase, questions, progress, "ana", "Generar Material",
                      FALSE, 0, NoParam))

\* The script handles one request at a time: nothing else happens between
\* the calls of a generation.
NextLadder ==
    \/ gateway.pc # "calling" /\ \E m \in Modes : SetMode(m)
    \/ /\ gateway.pc # "calling"
       /\ \E t \in {TodosLosTemas} \cup LadderTopics : SelectTopic(t)
    \/ \E t \in LadderTopics, upload_ok \in BOOLEAN : StartGenerate(t, upload_ok)
    \/ StartDialog
    \/ \E o \in GatewayOutcomes : LadderCall(o)

SpecLadder == InitLadder /\ [][NextLadder]_vars

(***************************************************************************)
(* A session that opens Estadisticas over the quiz answers of two users.    *)
(***************************************************************************)
StatsMaxProgress == 10

StatsRow(u, ok) ==
    [username |-> u, question_id |-> 1, is_correct |-> ok,
     user_answer |-> IF ok THEN "Paris" ELSE "paris"]

\* Up to one row of bob, then up to StatsMaxProgress rows of ana.
StatsLogs ==
    {b \o [k \in 1..n |-> StatsRow("ana", a[k])] :
        b \in {<<>>, <<StatsRow("bob", TRUE)>>, <<StatsRow("bob", FALSE)>>},
        n \in 0..StatsMaxProgress, a \in [1..StatsMaxProgress -> BOOLEAN]}

InitStats ==
    /\ supabase = TRUE
    /\ gateway = IdleGateway(TRUE)
    /\ peer = IdlePeer
    /\ questions = save_to_db(<<>>, 1, <<GenQuiz>>, "Math")
    /\ next_id = 2
    /\ progress \in StatsLogs
    /\ user \in Users
    /\ mode = "Gestionar Contenido"
    /\ selected_topic = TodosLosTemas
    /\ question_type = "Todas"
    /\ only_failed = FALSE
    /\ Shows(OtherRun(TRUE, questions, progress, user, "Gestionar Contenido",
                      FALSE, 0, NoParam))

NextStats ==
    \/ \E m \in {"Estadisticas", "Gestionar Contenido"} : SetMode(m)
    \/ Rerun
    \/ ClearHistory

SpecStats == InitStats /\ [][NextStats]_vars

(***************************************************************************)
(* Two browser sessions on one store.  The script runs of the two sessions *)
(* overlap: the statements the other session's run sends to the store      *)
(* (app.py:182-189, 386-396, 667, 701-717) are steps of their own.         *)
(***************************************************************************)
SharedMaxProgress == 2
PeerUser == "bob"

\* The run reads the questions table.
PeerRun ==
    /\ peer.pc = "idle"
    /\ supabase
    /\ questions # <<>>
    /\ peer' = [pc |-> "run", all_questions |-> questions, topic |-> ""]
    /\ UNCHANGED <<supabase, gateway, questions, next_id, progress, user, mode,
                   filters, cursor, view>>

\* A flashcard handler of the run inserts the answer to a question it read.
PeerSave(k, known) ==
    /\ peer.pc = "run"
    /\ k \in 1..Len(peer.all_questions)
    /\ progress' = save_progress(progress, PeerUser, peer.all_questions[k].id, known,
                       IF known THEN "Correcto mental" ELSE "Incorrecto mental")
    /\ peer' = IdlePeer
    /\ UNCHANGED <<supabase, gateway, questions, next_id, user, mode, filters,
                   cursor, view>>

\* "Eliminar" of topic t, first statement (app.py:703-706).
PeerDeleteProgress(t) ==
    /\ peer.pc = "run"
    /\ t \in topics_of(peer.all_questions)
    /\ LET q_ids == {peer.all_questions[k].id :
                        k \in {j \in 1..Len(peer.all_questions) :
                                  peer.all_questions[j].topic = t}}
       IN  progress' = delete_in_question_id(progress, q_ids)
    /\ peer' = [peer EXCEPT !.pc = "delete_topic", !.topic = t]
    /\ UNCHANGED <<supabase, gateway, questions, next_id, user, mode, filters,
                   cursor, view>>

\* "Eliminar", second statement (app.py:707).
PeerDeleteQuestions ==
    /\ peer.pc = "delete_topic"
    /\ questions' = delete_eq_topic(questions, peer.topic)
    /\ peer' = IdlePeer
    /\ UNCHANGED <<supabase, gateway, next_id, progress, user, mode, filters,
                   cursor, view>>

\* "Eliminar TODAS las preguntas", first statement (app.py:716).
PeerWipeProgress ==
    /\ peer.pc = "run"
    /\ progress' = delete_neq_username(progress, "---")
    /\ peer' = [peer EXCEPT !.pc = "wipe"]
    /\ UNCHANGED <<supabase, gateway, questions, next_id, user, mode, filters,
                   cursor, view>>

\* "Eliminar TODAS las preguntas", second statement (app.py:717).
PeerWipeQuestions ==
    /\ peer.pc = "wipe"
    /\ questions' = delete_neq_topic(questions, "---")
    /\ peer' = IdlePeer
    /\ UNCHANGED <<supabase, gateway, next_id, progress, user, mode, filters,
                   cursor, view>>

\* "Limpiar mi historial" (app.py:654).
PeerClearHistory ==
    /\ peer.pc = "run"
    /\ progress' = delete_eq_username(progress, PeerUser)
    /\ peer' = IdlePeer
    /\ UNCHANGED <<supabase, gateway, questions, next_id, user, mode, filters,
                   cursor, view>>

InitShared ==
    /\ questions = save_to_db(save_to_db(<<>>, 1, <<GenFlashcard>>, "Math"),
                              2, <<GenFlashcard>>, "Hist")
    /\ progress = <<>>
    /\ gateway = IdleGateway(TRUE)
    /\ peer = IdlePeer
    /\ StudyOpened

NextShared ==
    \/ \E m \in Modes \ {"Generar Material"} : SetMode(m)
    \/ NextQ
    \/ Len(progress) < SharedMaxProgress /\ \E known \in BOOLEAN : Flashcard(known)
    \/ ClearHistory
    \/ \E t \in TopicInputs : DeleteTopic(t)
    \/ WipeAll
    \/ PeerRun
    \/ /\ Len(progress) < SharedMaxProgress
       /\ \E k \in 1..2, known \in BOOLEAN : PeerSave(k, known)
    \/ PeerClearHistory
    \/ \E t \in TopicInputs : PeerDeleteProgress(t)
    \/ PeerDeleteQuestions
    \/ PeerWipeProgress
    \/ PeerWipeQuestions

SpecShared == InitShared /\ [][NextShared]_vars

(***************************************************************************)
(* Properties.                                                             *)
(***************************************************************************)
\* The ids the user u has an incorrect, resp. a correct, entry for.
FailedBy(u) ==
    {progress[k].question_id :
        k \in {j \in 1..Len(progress) :
                  progress[j].username = u /\ progress[j].is_correct = FALSE}}

SucceededBy(u) ==
    {progress[k].question_id :
        k \in {j \in 1..Len(progress) :
                  progress[j].username = u /\ progress[j].is_correct = TRUE}}

MatchesTopic(x) == selected_topic = TodosLosTemas \/ x.topic = selected_topic

MatchesType(x) ==
    \/ question_type = "Todas"
    \/ question_type = "Flashcards" /\ x.type = "flashcard"
    \/ question_type = "Quiz" /\ x.type = "quiz"
    \/ question_type = "Desarrollo" /\ x.type = "essay"

RECURSIVE IsSubSeqOf(_, _)
IsSubSeqOf(s, t) ==
    IF s = <<>> THEN TRUE
    ELSE IF t = <<>> THEN FALSE
    ELSE IF Head(s) = Head(t) THEN IsSubSeqOf(Tail(s), Tail(t))
    ELSE IsSubSeqOf(s, Tail(t))

EmptyResult == mode = "Estudiar" /\ page \in {"no_match", "no_failed"}

\* C1: whenever a run of the Estudiar branch reads db_questions[q_index], the
\* filtered list is non-empty and 0 <= q_index < len(db_questions); this holds
\* after every sequence of navigation, answers, filter changes, changes of
\* the tables and reloads.
C1_CursorInRangeAtDeref ==
    /\ page # "index_error"
    /\ \A k \in 1..Len(deref) :
          /\ Len(db_questions) > 0
          /\ 0 <= deref[k]
          /\ deref[k] < Len(db_questions)
          /\ deref[k] = q_index

C1_Witness ==
    /\ page = "question"
    /\ only_failed
    /\ Len(questions) = 3
    /\ Len(db_questions) = 2
    /\ deref = <<1>>

\* C2: the selected list is a sub-sequence of the stored questions: each
\* selected question is stored, none appears twice, and the selected
\* questions are in the order of the store.
C2_SelectionIsSubSequence ==
    WidgetsShown =>
        /\ IsSubSeqOf(db_questions, questions)
        /\ \A i, j \in 1..Len(db_questions) :
              i # j => db_questions[i].id # db_questions[j].id

C2_Witness ==
    /\ page = "question"
    /\ only_failed
    /\ Len(questions) = 2
    /\ FailedBy(user) = {1, 2}
    /\ progress[1].question_id = 2
    /\ db_questions = questions

\* C3: with only_failed on, no selected question has a correct entry of the
\* user, except on the fallback path (no failed id is left once the succeeded
\* ids are taken away) and then the question is one the user has failed.
C3_NoSucceededQuestion ==
    (WidgetsShown /\ only_failed) =>
        \A k \in 1..Len(db_questions) :
            db_questions[k].id \in SucceededBy(user) =>
                /\ FailedBy(user) \ SucceededBy(user) = {}
                /\ db_questions[k].id \in FailedBy(user)

C3_Witness ==
    /\ page = "question"
    /\ only_failed
    /\ selected_topic = TodosLosTemas
    /\ question_type = "Todas"
    /\ Len(db_questions) = 1
    /\ \E x \in FailedBy(user) \cap SucceededBy(user) : db_questions[1].id # x

\* C4: the selected list is exactly the stored questions, in order, that match
\* the selected topic (any topic for "Todos los temas"), match the selected
\* type (any type for "Todas") and, with only_failed on, have an id the user
\* has failed and never answered correctly (an id the user has failed when
\* there is no such id); rows of other users do not change the result.
C4_SelectionExact ==
    WidgetsShown =>
        LET never_correct == FailedBy(user) \ SucceededBy(user)
            wanted == IF never_correct # {} THEN never_correct ELSE FailedBy(user)
            own == SelectSeq(progress, LAMBDA p : p.username = user)
        IN  /\ db_questions =
                  SelectSeq(questions, LAMBDA x :
                      /\ MatchesTopic(x)
                      /\ MatchesType(x)
                      /\ only_failed => x.id \in wanted)
            /\ db_questions = Select(questions, selected_topic, question_type,
                                     only_failed, own, user)

C4_Witness ==
    /\ page = "question"
    /\ only_failed
    /\ selected_topic = TodosLosTemas
    /\ question_type = "Todas"
    /\ Len(questions) = 2
    /\ Len(db_questions) = 1
    /\ \E k \in 1..Len(progress) :
          /\ progress[k].username # user
          /\ ~progress[k].is_correct
          /\ progress[k].question_id # db_questions[1].id
          /\ progress[k].question_id \notin SucceededBy(user)

\* C5: with only_failed on and no failed id left once the succeeded ids are
\* taken away, the selection is the questions passing the topic and type
\* filters that the user has failed (a question failed and then answered
\* correctly is selected), and it is empty only if the user has failed none
\* of the questions passing the two filters.
C5_FallbackToFailed ==
    (WidgetsShown /\ only_failed /\ FailedBy(user) \ SucceededBy(user) = {}) =>
        LET passing == SelectSeq(questions,
                                 LAMBDA x : MatchesTopic(x) /\ MatchesType(x))
        IN  /\ db_questions = SelectSeq(passing, LAMBDA x : x.id \in FailedBy(user))
            /\ db_questions = <<>> =>
                  \A k \in 1..Len(passing) : passing[k].id \notin FailedBy(user)

C5_Witness ==
    /\ page = "question"
    /\ only_failed
    /\ FailedBy(user) # {}
    /\ FailedBy(user) \subseteq SucceededBy(user)
    /\ db_questions[1].id \in SucceededBy(user)

\* The ids of the only_failed selection with no topic and no type filter.
Pool ==
    LET sel == Select(questions, TodosLosTemas, "Todas", TRUE, progress, user)
    IN  {sel[k].id : k \in 1..Len(sel)}

\* This step appends an incorrect entry of the user for x.
FailsAgain(x) ==
    /\ Len(progress') = Len(progress) + 1
    /\ SubSeq(progress', 1, Len(progress)) = progress
    /\ progress'[Len(progress')].username = user
    /\ progress'[Len(progress')].question_id = x
    /\ progress'[Len(progress')].is_correct = FALSE

\* x was failed, then taken out of the pool by a correct answer.
Retired(x) == x \in FailedBy(user) /\ x \in SucceededBy(user) /\ x \notin Pool

\* C6 as stated: once a later incorrect entry for a retired question is
\* appended, the question is in the review set again.
C6_ReturnsOnceFailedAgain ==
    [][\A x \in 1..MaxQuestions : (Retired(x) /\ FailsAgain(x)) => x \in Pool']_vars

\* C6: a question retired from the review set by a correct answer stays out
\* of it when a later incorrect entry for it is appended; a question with a
\* correct entry is in the review set only on the fallback path, when every
\* question the user has failed has a correct entry too.
C6_RetiredStaysOut ==
    /\ [](\A x \in Pool : x \in SucceededBy(user) =>
              FailedBy(user) \subseteq SucceededBy(user))
    /\ [][\A x \in 1..MaxQuestions :
              (Retired(x) /\ FailsAgain(x)) => x \notin Pool']_vars

C6_Witness ==
    /\ page = "question"
    /\ only_failed
    /\ \E i, j, k \in 1..Len(progress) :
          /\ i < j /\ j < k
          /\ progress[i].question_id = progress[j].question_id
          /\ progress[j].question_id = progress[k].question_id
          /\ ~progress[i].is_correct
          /\ progress[j].is_correct
          /\ ~progress[k].is_correct
          /\ progress[k].question_id \notin Pool
          /\ \A n \in 1..Len(db_questions) :
                db_questions[n].id # progress[k].question_id

AnswerStep ==
    \/ \E known \in BOOLEAN : Flashcard(known)
    \/ \E k \in 1..Len(GenQuiz.options) : Quiz(k)
    \/ \E text \in EssayTexts, outcome \in GradeOutcomes : Essay(text, outcome)

NavigationStep == Prev \/ NextQ \/ \E n \in 1..MaxQuestions : GoTo(n)

FilterStep ==
    \/ \E t \in {TodosLosTemas} \cup TopicInputs : SelectTopic(t)
    \/ \E k \in 1..Len(QuestionTypes) : SelectType(QuestionTypes[k])
    \/ ToggleOnlyFailed

\* C7: an answer step that records appends exactly one row, for the session's
\* user and the question at the cursor in the run of the click, and changes
\* no earlier row and no question; navigation and filter steps leave both
\* tables as they are.
C7_AnswerAppendsOneEntry ==
    [][/\ AnswerStep =>
            /\ questions' = questions
            /\ \/ progress' = progress
               \/ /\ Len(progress') = Len(progress) + 1
                  /\ SubSeq(progress', 1, Len(progress)) = progress
                  /\ progress'[Len(progress')].username = user
                  /\ ClickRun.page = "question"
                  /\ progress'[Len(progress')].question_id =
                        Item(ClickRun.db_questions, ClickRun.q_index).id
       /\ (NavigationStep \/ FilterStep) =>
            (progress' = progress /\ questions' = questions)]_vars

C7_Witness ==
    /\ page = "question"
    /\ q.type = "essay"
    /\ Len(progress) = 2
    /\ progress[2].username = user
    /\ progress[2].question_id = q.id
    /\ progress[1].question_id # q.id

\* C8, read on the list and cursor of the run the click starts:
\* Siguiente at the last index and Anterior at index 0 leave the cursor as it
\* is; elsewhere they add, resp. subtract, exactly 1.
C8_NavSaturates ==
    [][/\ NextQ =>
            q_index' = IF ClickRun.q_index >= Len(ClickRun.db_questions) - 1
                       THEN ClickRun.q_index ELSE ClickRun.q_index + 1
       /\ Prev =>
            q_index' = IF ClickRun.q_index = 0
                       THEN ClickRun.q_index ELSE ClickRun.q_index - 1]_vars

\* A step whose script run computes the filtered list and leaves the cursor
\* to the clamp: no handler sets q_index.
RecomputeStep ==
    /\ \/ FilterStep
       \/ Rerun
       \/ \E g \in Responses : GenerateDialog(g)
       \/ SetMode("Estudiar")
    /\ has_q_index
    /\ supabase
    /\ questions' # <<>>

NewList ==
    Select(questions', selected_topic', question_type', only_failed', progress',
           user')

\* C9: on a recomputation the cursor stays if it is a valid index
\* of the new list and is 0 otherwise.
C9_ResetWhenOutOfRange ==
    [][RecomputeStep =>
          q_index' = IF 0 <= q_index /\ q_index < Len(NewList)
                     THEN q_index ELSE 0]_vars

\* C10: when the filtered list is empty the cursor is 0 and no
\* question is read.
C10_EmptyListCursorZero == EmptyResult => (q_index = 0 /\ deref = <<>>)

\* C11: "Ir" with the number n the drawn input holds, 1 <= n <= len, sets the
\* cursor to n - 1; whatever value the input gives in the run of the click,
\* the cursor it leaves is an index of that run's list.
C11_JumpSetsCursor ==
    [][\A n \in 1..MaxQuestions :
          (GoTo(n) /\ ClickRun.page = "question") =>
              /\ page' = "question"
              /\ 0 <= q_index' /\ q_index' < Len(db_questions')
              /\ deref' = <<q_index'>>
              /\ (ClickRun.db_questions = db_questions /\ ClickRun.q_index = q_index)
                    => q_index' = n - 1]_vars

C11_Witness ==
    /\ page = "question"
    /\ Len(db_questions) = 3
    /\ deref = <<2>>
    /\ ENABLED (GoTo(1) /\ q_index' = 0 /\ deref' = <<0>>)

\* The cursor a fresh session is to start at for the q parameter url over a
\* list of n questions: the number url writes if it is one and is an index
\* of the list, 0 otherwise.
ExpectedStart(url, n) ==
    IF /\ url # NoParam
       /\ Len(url) > 0
       /\ \A k \in 1..Len(url) : IsDecimal(url[k])
       /\ IntOf(url) < n
    THEN IntOf(url) ELSE 0

QEqualsCursor == page = "question" => url_q = Str(q_index)

ResumesAtCursor ==
    LET r == StudyNow(questions, progress, selected_topic, question_type,
                      only_failed, FALSE, 0, url_q)
    IN  (page = "question" /\ r.db_questions = db_questions) =>
            (r.page = "question" /\ r.q_index = q_index)

FreshStart ==
    (/\ ~has_q_index
     /\ user' # NoUser
     /\ mode' = "Estudiar"
     /\ supabase
     /\ NewList # <<>>) =>
        (has_q_index' /\ q_index' = ExpectedStart(url_q, Len(NewList)))

\* C12: q is the cursor written as a number after every run that shows a
\* question; a session without a cursor started with that q over the same
\* list is at the same cursor; a session without a cursor whose q is absent,
\* not a number, negative or not an index of the list starts at cursor 0.
C12_RoundTrip ==
    /\ []QEqualsCursor
    /\ []ResumesAtCursor
    /\ [][FreshStart]_vars

\* C13: after "Eliminar TODAS las preguntas" no question and no progress row
\* is left, whatever topics and usernames the rows hold.
C13_WipeEmptiesTables ==
    [][WipeAll => (questions' = <<>> /\ progress' = <<>>)]_vars

\* C14: deleting topic t leaves no question of topic t and no progress row,
\* of any user, for a question that had topic t; the other questions and the
\* rows for them stay as they are, in order.
C14_DeleteTopicCascade ==
    [][\A t \in TopicInputs \cup ManageTopics :
          DeleteTopic(t) =>
              LET ids == {questions[k].id :
                            k \in {j \in 1..Len(questions) : questions[j].topic = t}}
              IN  /\ \A k \in 1..Len(questions') : questions'[k].topic # t
                  /\ \A k \in 1..Len(progress') : progress'[k].question_id \notin ids
                  /\ questions' = SelectSeq(questions, LAMBDA x : x.topic # t)
                  /\ progress' = SelectSeq(progress,
                                           LAMBDA p : p.question_id \notin ids)]_vars

C14_Witness ==
    /\ page = "manage"
    /\ next_id = 3
    /\ Len(questions) = 1
    /\ questions[1].topic = "Math"
    /\ Len(progress) = 1
    /\ progress[1].username # user
    /\ progress[1].question_id = questions[1].id

\* Some row of progress is not in progress' at its place.
RowRemoved ==
    ~(/\ Len(progress') >= Len(progress)
      /\ SubSeq(progress', 1, Len(progress)) = progress)

\* C19: a progress row goes away only in a "Limpiar mi historial", a topic
\* deletion or a full wipe; "Limpiar mi historial" of user u removes exactly
\* the rows whose username is u, keeps the other rows in order and changes no
\* question.
C19_RowsRemovedOnlyByDeletes ==
    [][/\ RowRemoved =>
            \/ ClearHistory
            \/ \E t \in TopicInputs \cup ManageTopics : DeleteTopic(t)
            \/ WipeAll
       /\ ClearHistory =>
            /\ progress' = SelectSeq(progress, LAMBDA p : p.username # user)
            /\ questions' = questions]_vars

C19_Witness ==
    /\ page = "stats"
    /\ \E k \in 1..Len(progress) : progress[k].username # user
    /\ ENABLED (/\ ClearHistory
                /\ Len(progress') = 1
                /\ progress'[1].username # user
                /\ page' = "no_stats")

(***************************************************************************)
(* The generation ladder.                                                  *)
(***************************************************************************)
\* The step is one model call of the ladder; LastCall is that call.
CallStep == gateway.pc = "calling" /\ Len(gateway'.calls) = Len(gateway.calls) + 1
LastCall(g) == g.calls[Len(g.calls)]
Failed(c) == ~Attempt(c.outcome).ok
QuotaFailure(c) ==
    /\ Failed(c)
    /\ \E k \in 1..Len(Attempt(c.outcome).error_msg) :
          \/ Attempt(c.outcome).error_msg[k] = "429"
          \/ Attempt(c.outcome).error_msg[k] = "RESOURCE_EXHAUSTED"
IsLastModel(g) == g.model = Len(ladder_models(g.dialog))
CallsOf(g, m) == {k \in 1..Len(g.calls) : g.calls[k].model = m}

\* C15: a quota failure (text with 429 or RESOURCE_EXHAUSTED) on a model's
\* first attempt is followed by exactly one retry of the same model; any other
\* failure moves to the next model at once (or ends the ladder after the last
\* model); no model is attempted more than twice.
C15_QuotaRetriedOnce ==
    /\ [](\A m \in 1..3 :
             Cardinality(CallsOf(gateway, ladder_models(gateway.dialog)[m])) <= 2)
    /\ [][CallStep /\ Failed(LastCall(gateway')) =>
            LET c == LastCall(gateway')
            IN  IF QuotaFailure(c) /\ c.attempt = 1
                THEN /\ gateway'.pc = "calling"
                     /\ gateway'.model = gateway.model
                     /\ gateway'.attempt = 2
                ELSE IF IsLastModel(gateway)
                THEN gateway'.pc = "done"
                ELSE /\ gateway'.pc = "calling"
                     /\ gateway'.model = gateway.model + 1
                     /\ gateway'.attempt = 1]_vars

\* A quota failure, the one retry, which fails again, then the next model
\* fails otherwise and the ladder goes on to the third model.
C15_Witness ==
    /\ gateway.pc = "calling"
    /\ Len(gateway.calls) = 3
    /\ QuotaFailure(gateway.calls[1]) /\ gateway.calls[1].attempt = 1
    /\ gateway.calls[2].model = gateway.calls[1].model
    /\ gateway.calls[2].attempt = 2 /\ QuotaFailure(gateway.calls[2])
    /\ gateway.calls[3].model # gateway.calls[1].model
    /\ gateway.calls[3].attempt = 1 /\ ~QuotaFailure(gateway.calls[3])
    /\ gateway.model = 3 /\ gateway.attempt = 1

PreferenceOrder(g) == IF g.dialog THEN dialog_models_to_try ELSE models_to_try
Rank(g, k) == CHOOSE i \in 1..3 : PreferenceOrder(g)[i] = g.calls[k].model
Succeeded(c) == c.outcome.error = <<>> /\ c.outcome.wellformed

\* C16: the calls of a generation go down the preference order from its
\* first model, never skipping one; every call before the last one failed, so
\* no call follows a successful one; when the last call succeeded the
\* generation returns the questions of that call.
C16_StopsAtFirstSuccess ==
    /\ \A k \in 1..Len(gateway.calls) :
          /\ gateway.calls[k].model \in
                {PreferenceOrder(gateway)[i] : i \in 1..3}
          /\ k = 1 => Rank(gateway, k) = 1
          /\ k > 1 => Rank(gateway, k) \in
                         {Rank(gateway, k - 1), Rank(gateway, k - 1) + 1}
          /\ k < Len(gateway.calls) => ~Succeeded(gateway.calls[k])
    /\ gateway.calls # <<>> /\ Succeeded(LastCall(gateway)) =>
          /\ gateway.pc = "done"
          /\ gateway.result = LastCall(gateway).outcome.value

\* The first model fails, the second answers with questions: they are the
\* result and the ladder has stopped there.
C16_Witness ==
    /\ gateway.pc = "done"
    /\ Len(gateway.calls) = 2
    /\ ~Succeeded(gateway.calls[1])
    /\ Succeeded(gateway.calls[2])
    /\ gateway.calls[2].model = PreferenceOrder(gateway)[2]
    /\ gateway.result = <<GenFlashcard>>

\* The generation is over and every call it made failed.
Exhausted(g) ==
    /\ g.pc = "done"
    /\ Len(g.calls) >= 3
    /\ \A k \in 1..Len(g.calls) : ~Succeeded(g.calls[k])

\* C17: when every attempt on every candidate has failed the generation is
\* over after at most two attempts per candidate, has returned no questions,
\* has left the questions table as it was and has shown one error.
C17_OneTerminalFailure ==
    Exhausted(gateway) =>
        /\ \A m \in 1..3 :
              Cardinality(CallsOf(gateway, PreferenceOrder(gateway)[m])) \in 1..2
        /\ gateway.result = <<>>
        /\ questions = gateway.before
        /\ gateway.errors = 1

\* The same without the count of the errors shown.
ExhaustedReturnsNothing ==
    Exhausted(gateway) =>
        /\ \A m \in 1..3 :
              Cardinality(CallsOf(gateway, PreferenceOrder(gateway)[m])) \in 1..2
        /\ gateway.result = <<>>
        /\ questions = gateway.before
        /\ gateway.errors = IF gateway.dialog THEN 1 ELSE 2

IsMalformed(c) == c.outcome.error = <<>> /\ ~c.outcome.wellformed
IsEmpty(c) == Succeeded(c) /\ c.outcome.value = <<>>

\* C18: a generation in which a model gave a malformed response ends as one
\* in which a model gave an empty list does: with no questions returned and
\* the questions table as it was.
C18_MalformedAsEmpty ==
    /\ gateway.pc = "done"
    /\ \E k \in 1..Len(gateway.calls) :
          IsMalformed(gateway.calls[k]) \/ IsEmpty(gateway.calls[k])
    => /\ gateway.result = <<>>
       /\ questions = gateway.before

\* The part that holds: an empty list ends the generation with nothing.
EmptyEndsGeneration ==
    /\ gateway.pc = "done"
    /\ \E k \in 1..Len(gateway.calls) : IsEmpty(gateway.calls[k])
    => /\ gateway.result = <<>>
       /\ questions = gateway.before
       /\ IsEmpty(LastCall(gateway))

(***************************************************************************)
(* Essay grading.                                                          *)
(***************************************************************************)
\* The run of the click draws the question the page shows.
FreshClick ==
    /\ ClickRun.page = "question"
    /\ Item(ClickRun.db_questions, ClickRun.q_index).id = q.id

\* C20: the row an essay answer adds carries the verdict's boolean and the
\* text as typed; when the key is not set, the grading call raises or its
\* response does not parse, a row is added and it is an incorrect one.
C20_EssayRecordsVerdict ==
    [][\A text \in EssayTexts, outcome \in GradeOutcomes :
          Essay(text, outcome) =>
             LET failure == ~gateway.key \/ outcome \in {"raise", "malformed"}
                 n == Len(progress')
             IN  /\ progress' # progress =>
                       /\ n = Len(progress) + 1
                       /\ progress'[n].question_id = q.id
                       /\ progress'[n].user_answer = text
                       /\ progress'[n].is_correct =
                             IF failure THEN FALSE ELSE outcome = "true"
                 /\ failure /\ text \notin Blank /\ FreshClick =>
                       /\ n = Len(progress) + 1
                       /\ progress'[n].is_correct = FALSE]_vars

\* Without a key an essay answer has been recorded, incorrect and with the
\* spaces the user typed.
C20_Witness ==
    /\ ~gateway.key
    /\ page = "question"
    /\ q.type = "essay"
    /\ progress # <<>>
    /\ progress[Len(progress)] =
          [username |-> user, question_id |-> q.id, is_correct |-> FALSE,
           user_answer |-> " txt "]

(***************************************************************************)
(* Quiz answers.                                                           *)
(***************************************************************************)
StoredQuestion(id) == CHOOSE x \in {questions[k] : k \in 1..Len(questions)} : x.id = id

\* C21: the row a quiz answer adds holds an option of its question as
\* user_answer, and is_correct is true exactly when that string equals the
\* stored answer, letter case included; when the run of the click draws the
\* question the page shows, the option is the one selected there.
C21_QuizLiteralMatch ==
    [][\A k \in 1..Len(GenQuiz.options) :
          Quiz(k) /\ progress' # progress =>
             LET row == progress'[Len(progress')]
                 stored == StoredQuestion(row.question_id)
             IN  /\ Len(progress') = Len(progress) + 1
                 /\ stored.type = "quiz"
                 /\ \E j \in 1..Len(stored.options) :
                       row.user_answer = stored.options[j]
                 /\ row.is_correct = (row.user_answer = stored.answer)
                 /\ FreshClick =>
                       /\ row.question_id = q.id
                       /\ row.user_answer = q.options[k]]_vars

\* The option that differs from the answer in case only has been recorded as
\* incorrect, the option equal to it as correct.
C21_Witness ==
    /\ page = "question"
    /\ q.type = "quiz"
    /\ Len(progress) >= 2
    /\ progress[Len(progress) - 1] =
          [username |-> user, question_id |-> q.id, is_correct |-> FALSE,
           user_answer |-> "paris"]
    /\ progress[Len(progress)] =
          [username |-> user, question_id |-> q.id, is_correct |-> TRUE,
           user_answer |-> "Paris"]

(***************************************************************************)
(* Statistics.                                                             *)
(***************************************************************************)
OwnRows == {k \in 1..Len(progress) : progress[k].username = user}
OwnCorrect == {k \in OwnRows : progress[k].is_correct}

\* C22: the metrics shown count the rows of the session's user only: total is
\* their number, correct the number of them with is_correct true, and the
\* precision shown is the tenth of a percent nearest to correct / total * 100
\* (700 tenths for 7 of 10); accuracy is 0 for a total of 0, and with no row
\* of the user no metric is shown.
C22_StatsOfOwnRows ==
    /\ accuracy(0, 0) = [num |-> 0, den |-> 1]
    /\ FormatTenths(accuracy(0, 0)) = 0
    /\ mode = "Estadisticas" =>
          IF OwnRows = {} THEN metrics = <<>> /\ page = "no_stats"
          ELSE /\ page = "stats"
               /\ Len(metrics) = 1
               /\ metrics[1].total = Cardinality(OwnRows)
               /\ metrics[1].correct = Cardinality(OwnCorrect)
               /\ LET d == metrics[1].precision * metrics[1].total
                           - 1000 * metrics[1].correct
                  IN  -metrics[1].total <= 2 * d /\ 2 * d <= metrics[1].total
               /\ metrics[1].total = 10 /\ metrics[1].correct = 7 =>
                     metrics[1].precision = 700

\* ana has 7 correct answers out of 10, beside a row of bob: 70.0 is shown.
C22_Witness ==
    /\ mode = "Estadisticas"
    /\ page = "stats"
    /\ user = "ana"
    /\ Len(progress) = 11
    /\ progress[1].username = "bob"
    /\ metrics = <<[total |-> 10, correct |-> 7, precision |-> 700]>>

(***************************************************************************)
(* What follows an answer.                                                 *)
(***************************************************************************)
\* The run of the click computes the list and the cursor the page shows.
FreshPage ==
    /\ ClickRun.page = "question"
    /\ ClickRun.db_questions = db_questions
    /\ ClickRun.q_index = q_index

FlashcardStep == \E known \in BOOLEAN : Flashcard(known)

FollowerShown ==
    /\ page' = "question"
    /\ Item(db_questions', deref'[1]).id = Item(db_questions, q_index + 1).id

\* C23: after a flashcard answer at a position that is not the last one, the
\* question shown is the one that followed the answered question in the list
\* shown before the answer, with or without the only-failed toggle.
C23_NextIsFollower ==
    [][FlashcardStep /\ FreshPage /\ q_index < Len(db_questions) - 1 =>
          FollowerShown]_vars

\* The same with the toggle off.
FollowerShownUnlessOnlyFailed ==
    [][FlashcardStep /\ FreshPage /\ q_index < Len(db_questions) - 1
          /\ ~only_failed => FollowerShown]_vars

(***************************************************************************)
(* Referential integrity.                                                  *)
(***************************************************************************)
Dangling ==
    {k \in 1..Len(progress) :
        \A j \in 1..Len(questions) : questions[j].id # progress[k].question_id}

\* C24: whenever no script run of the other session is under way, every
\* progress row's question_id is the id of a stored question.
C24_ReferentialIntegrity == peer.pc = "idle" => Dangling = {}

(***************************************************************************)
(* The selection and the other topics.                                     *)
(***************************************************************************)
\* The rows of user u in log pr for questions of topic t.
TopicRows(pr, u, t) ==
    SelectSeq(pr, LAMBDA p :
        /\ p.username = u
        /\ \E j \in 1..Len(questions) :
              questions[j].id = p.question_id /\ questions[j].topic = t)

\* C25: with the toggle on and a topic selected, every progress log with the
\* same rows of the user for that topic's questions gives the selection the
\* stored log gives.
C25_SelectionIgnoresOtherTopics ==
    mode = "Estudiar" /\ only_failed /\ selected_topic # TodosLosTemas =>
        \A pr2 \in Logs(questions, SelMaxProgress) :
            TopicRows(pr2, user, selected_topic)
                = TopicRows(progress, user, selected_topic)
            => Select(questions, selected_topic, question_type, TRUE, pr2, user)
                  = Select(questions, selected_topic, question_type, TRUE,
                           progress, user)

(***************************************************************************)
(* The cursor after an answer.                                             *)
(***************************************************************************)
QuizStep == \E k \in 1..Len(GenQuiz.options) : Quiz(k)
EssayStep == \E text \in EssayTexts, outcome \in GradeOutcomes : Essay(text, outcome)

Advanced ==
    q_index' = IF q_index < Len(db_questions) - 1 THEN q_index + 1 ELSE q_index

\* C26: a flashcard answer leaves the cursor one further, or where it is at
\* the last index of the list; a quiz or essay answer leaves it where it is.
C26_CursorAfterAnswer ==
    [][/\ FlashcardStep /\ FreshPage => Advanced
       /\ (QuizStep \/ EssayStep) /\ FreshPage => q_index' = q_index]_vars

\* The same with the only-failed toggle off.
CursorAfterAnswerUnlessOnlyFailed ==
    [][~only_failed =>
          /\ FlashcardStep /\ FreshPage => Advanced
          /\ (QuizStep \/ EssayStep) /\ FreshPage => q_index' = q_index]_vars

\* The quiz and essay part alone.
CursorKeptByQuizAndEssay ==
    [][(QuizStep \/ EssayStep) /\ FreshPage => q_index' = q_index]_vars

====
